---- MODULE Spec2Model ----
(***************************************************************************)
(* Account subsystem of MINERAL-APP (App-MINN2020A): identity generation,  *)
(* authentication with lockout, reset tokens, unlock, and the JSON record  *)
(* store, modelled from utils/auth.py, utils/data_loader.py, config.py and *)
(* app.py.                                                                 *)
(*                                                                         *)
(* Strings whose characters the code inspects (names, e-mails, user ids,   *)
(* usernames) are sequences of character codes; strings that are only      *)
(* compared for equality (roles, events, passwords) are TLA+ strings.      *)
(* Time is UTC in whole seconds since the Unix epoch.                      *)
(***************************************************************************)
EXTENDS Integers, Sequences, FiniteSets, TLC

VARIABLES
    users,      \* users.json: the sequence under "users"
    logs,       \* logs.json: the sequence under "logs"
    session,    \* the Flask session of the caller
    clock,      \* current UTC time, seconds since the epoch
    ticks,      \* number of clock advances so far
    booted,     \* create_initial_admin has run
    pending,    \* the create_user call in progress, if any
    last,       \* the most recent call and what it returned
    tokens,     \* reset tokens issued so far
    streak      \* current run of consecutive wrong-password logins

vars == <<users, logs, session, clock, ticks, booted, pending, last,
          tokens, streak>>

----------------------------------------------------------------------------
(* Bounds of the model *)

MaxUsers == 2       \* records in users.json
MaxLogs == 3        \* entries in logs.json
MaxLoginLogs == 7   \* entries in logs.json when only logins are followed
MaxTicks == 1       \* clock advances in one behaviour
MaxAttempt == 52    \* loop iterations of generate_user_id that are followed
RandN == 1          \* secrets.randbelow draws are taken from 0..RandN-1
MaxTokens == 1      \* reset tokens in flight
MaxAuditLogs == 2   \* entries in logs.json when every operation is followed
MaxSuffix == 3      \* highest numbered name in the stores given to generate_username

----------------------------------------------------------------------------
(* config.py *)

PASSWORD_RESET_SALT == "password-reset-salt"
PASSWORD_RESET_EXP_SECONDS == 3600
MAX_FAILED_LOGIN == 5
LOCKOUT_SECONDS == 15 * 60
USER_ID_PREFIX == <<77, 73, 78, 78>>                        \* "MINN"
SECRET_KEY == "replace_this_with_a_secret_in_prod"

----------------------------------------------------------------------------
(* Character strings *)

S_System == <<83, 121, 115, 116, 101, 109>>                 \* "System"
S_Admin == <<65, 100, 109, 105, 110>>                       \* "Admin"
S_admin_mail == <<97, 100, 109, 105, 110, 64, 101, 120, 97, 109, 112, 108,
                  101, 46, 99, 111, 109>>                   \* "admin@example.com"
S_SouthAfrica == <<83, 111, 117, 116, 104, 65, 102, 114, 105, 99, 97>>
S_MINN == <<77, 73, 78, 78>>                                \* "MINN"
S_Jane == <<74, 97, 110, 101>>                              \* "Jane"
S_JA_NE == <<74, 65, 45, 78, 69>>                           \* "JA-NE"
S_Doe == <<68, 111, 101>>                                   \* "Doe"
S_jane_mail == <<106, 97, 110, 101, 64, 120, 46, 99, 111, 109>>  \* "jane@x.com"
S_JANE_MAIL == <<74, 65, 78, 69, 64, 88, 46, 67, 79, 77>>   \* "JANE@X.COM"
S_nobody == <<110, 111, 98, 111, 100, 121>>                 \* "nobody"
S_MI == <<77, 73>>                                          \* "MI"
S_ZA == <<90, 65>>                                          \* "ZA"

None == <<>>

\* str.lower() / str.upper() / str.isalnum() on one ASCII character
LowerCh(c) == IF c \in 65..90 THEN c + 32 ELSE c
UpperCh(c) == IF c \in 97..122 THEN c - 32 ELSE c
IsAlnum(c) == c \in 48..57 \/ c \in 65..90 \/ c \in 97..122

Lower(s) == [i \in 1..Len(s) |-> LowerCh(s[i])]
Upper(s) == [i \in 1..Len(s) |-> UpperCh(s[i])]
\* s[:n]
Take(s, n) == SubSeq(s, 1, IF Len(s) < n THEN Len(s) ELSE n)
\* ''.join(ch for ch in s.lower() if ch.isalnum())
Normalize(s) == SelectSeq(Lower(s), IsAlnum)

RECURSIVE SumOrd(_)
SumOrd(s) == IF s = <<>> THEN 0 ELSE s[1] + SumOrd(Tail(s))

\* str(n) for n >= 0
RECURSIVE Str(_)
Str(n) == IF n < 10 THEN <<48 + n>> ELSE Str(n \div 10) \o <<48 + (n % 10)>>

\* f"{n:0{w}d}"
RECURSIVE Pad(_, _)
Pad(n, w) == IF Len(Str(n)) >= w THEN Str(n)
             ELSE <<48>> \o Pad(n, w - 1)

----------------------------------------------------------------------------
(* Clock: datetime.utcnow() and time.time() *)

StartMidnight == 1752537600                 \* 2025-07-15T00:00:00Z
StartUnix == StartMidnight + 2481           \* 2025-07-15T00:41:21Z
TickSteps == {1, LOCKOUT_SECONDS}
TokenTickSteps == {1, PASSWORD_RESET_EXP_SECONDS}
\* UTC offsets of the server's local time zone: UTC, UTC+2
TZOffsets == {0, 7200}

\* datetime.utcnow().strftime("%y%m%d"), for the days of July 2025 the
\* clock can reach
BaseDate(t) == <<50, 53, 48, 55>> \o Pad(15 + (t - StartMidnight) \div 86400, 2)

\* naive.isoformat() + "Z"
IsoZ(t) == <<"iso", t, "Z">>
\* datetime.fromisoformat(s.replace("Z", ""))
FromIso(s) == s[2]
\* naive.timestamp(): a naive datetime is read as local time
Timestamp(naive, tz) == naive - tz
\* datetime.utcfromtimestamp(ts)
UtcFromTimestamp(ts) == ts

----------------------------------------------------------------------------
(* Identity generation *)

UserIds(us) == {us[i].user_id : i \in 1..Len(us)}
Usernames(us) == {us[i].username : i \in 1..Len(us)}

\* auth.py:36  core of a candidate id
Core(first_name, last_name, t, rand4) ==
    USER_ID_PREFIX \o BaseDate(t)
        \o Upper(Take(first_name, 1) \o Take(last_name, 1)) \o Pad(rand4, 4)

\* auth.py:38-39  candidate with mod-97 checksum
Checksum(core) == SumOrd(core) % 97
Candidate(core) == core \o Pad(Checksum(core), 2)

\* auth.py:45  fallback id
Fallback(core, t) == core \o Str(t % 10000)

\* auth.py:56-60
BaseUsername(first_name, last_name, country, org) ==
    LET fn == Normalize(first_name)
        ln == Normalize(last_name)
        cc == Take(Normalize(country), 3)
        orgshort == IF org # <<>> THEN Take(Normalize(org), 3) ELSE <<>>
    IN  fn \o <<46>> \o ln \o <<46>> \o cc
           \o (IF orgshort # <<>> THEN <<46>> \o orgshort ELSE <<>>)

\* auth.py:61-67  the suffix loop, entered with username = base + str(suffix-1)
RECURSIVE SuffixLoop(_, _, _, _)
SuffixLoop(username, base, suffix, existing) ==
    IF username \in existing
    THEN SuffixLoop(base \o Str(suffix), base, suffix + 1, existing)
    ELSE username

\* a generator that returns the base name without looking at the store
generate_username_NoSuffix(us, first_name, last_name, country, org) ==
    BaseUsername(first_name, last_name, country, org)

\* a generator whose first suffix is 2
generate_username_FromTwo(us, first_name, last_name, country, org) ==
    LET base == BaseUsername(first_name, last_name, country, org)
    IN  SuffixLoop(base, base, 2, Usernames(us))

\* auth.py:49-67
generate_username(us, first_name, last_name, country, org) ==
    LET base == BaseUsername(first_name, last_name, country, org)
    IN  SuffixLoop(base, base, 1, Usernames(us))

----------------------------------------------------------------------------
(* Password helpers and reset tokens *)

\* auth.py:72-75  one-way hash; the random salt, which only varies the
\* representation of the hash, is left out
hash_password(plain) == <<"bcrypt", plain>>
\* auth.py:77-78
check_password(plain, hashed) == hashed = hash_password(plain)

\* URLSafeTimedSerializer(SECRET).dumps / loads: the signature is a keyed
\* function of the purpose salt, the payload and the issue time
Sign(key, payload, ts) == <<"hmac", key, PASSWORD_RESET_SALT, payload, ts>>

\* auth.py:186-188
generate_reset_token(email, t) ==
    [payload |-> email, ts |-> t, sig |-> Sign(SECRET_KEY, email, t)]

\* a loader that already rejects a token whose age equals max_age
LoadsStrict(token, max_age, t) ==
    IF token.sig # Sign(SECRET_KEY, token.payload, token.ts)
    THEN [kind |-> "BadSignature", email |-> None]
    ELSE IF t - token.ts >= max_age \/ t - token.ts < 0
    THEN [kind |-> "SignatureExpired", email |-> None]
    ELSE [kind |-> "ok", email |-> token.payload]

\* auth.py:193-199  s.loads(token, salt=..., max_age=max_age): the outcome
\* kind (the exception raised, if any) and the payload
Loads(token, max_age, t) ==
    IF token.sig # Sign(SECRET_KEY, token.payload, token.ts)
    THEN [kind |-> "BadSignature", email |-> None]
    ELSE IF t - token.ts > max_age \/ t - token.ts < 0
    THEN [kind |-> "SignatureExpired", email |-> None]
    ELSE [kind |-> "ok", email |-> token.payload]

\* auth.py:190-199
verify_reset_token(token, max_age, t) ==
    LET r == Loads(token, max_age, t)
    IN  IF r.kind = "ok" THEN r.email ELSE None

----------------------------------------------------------------------------
(* Record store and lookups *)

\* data_loader.py:17-20 / 22-24: whole-document read and replace
load_users == users
save_users(data) == data

\* a writer that puts the new entry first
append_log_Front(lg, entry) == <<entry>> \o lg

\* data_loader.py:26-33
append_log(lg, entry) == Append(lg, entry)

\* index of the first record satisfying the loop's test, 0 if none
RECURSIVE FirstIdx(_, _, _, _)
FirstIdx(us, field, val, i) ==
    IF i > Len(us) THEN 0
    ELSE IF field = "username" /\ us[i].username = val THEN i
    ELSE IF field = "user_id" /\ us[i].user_id = val THEN i
    ELSE IF field = "email" /\ Lower(us[i].email) = Lower(val) THEN i
    ELSE FirstIdx(us, field, val, i + 1)

\* a lookup that falls back on the first record
find_user_by_username_OrFirst(us, username) ==
    IF FirstIdx(us, "username", username, 1) = 0 /\ us # <<>> THEN 1
    ELSE FirstIdx(us, "username", username, 1)

\* auth.py:118-123
find_user_by_username(us, username) == FirstIdx(us, "username", username, 1)
\* a lookup that compares e-mails as they are written
find_user_by_email_CaseSensitive(us, email) ==
    IF \E i \in 1..Len(us) : us[i].email = email
    THEN CHOOSE i \in 1..Len(us) : us[i].email = email
    ELSE 0

\* auth.py:125-130
find_user_by_email(us, email) == FirstIdx(us, "email", email, 1)

RemoteIp == "127.0.0.1"
Idle == [op |-> "idle"]
NoSession == [username |-> None, role |-> "", user_id |-> None]
NoStreak == [user |-> None, n |-> 0, at |-> 0]

----------------------------------------------------------------------------
(* create_user *)

\* auth.py:92-105
NewUser(req, user_id, username, t) ==
    [user_id |-> user_id, username |-> username,
     first_name |-> req.first_name, last_name |-> req.last_name,
     email |-> req.email, country |-> req.country,
     organization |-> req.org, role |-> req.role,
     password_hash |-> hash_password(req.password),
     created_at |-> IsoZ(t), failed_logins |-> 0, locked_until |-> None]

\* auth.py:89-116  the rest of create_user once generate_user_id returned
FinishCreate(user_id) ==
    LET req == pending.req
        data == load_users
        username == generate_username(load_users, req.first_name,
                                      req.last_name, req.country, req.org)
        new_user == NewUser(req, user_id, username, clock)
    IN  /\ users' = save_users(Append(data, new_user))
        /\ logs' = append_log(logs,
              [timestamp |-> IsoZ(clock), event |-> "user_created",
               user_id |-> user_id, username |-> username,
               role |-> req.role,
               meta |-> [email |-> req.email, country |-> req.country]])
        /\ pending' = Idle
        /\ booted' = TRUE
        /\ last' = [op |-> pending.via, arg |-> req, ok |-> TRUE,
                    msg |-> <<"created">>, ret |-> new_user]

\* auth.py:34-47  one iteration of the while-True loop of generate_user_id
GenUserIdStep(rand4) ==
    /\ pending.op = "create_user"
    /\ LET req == pending.req
           core == Core(req.first_name, req.last_name, clock, rand4)
           user_id == Candidate(core)
           attempt == pending.attempt + 1
           fallback == Fallback(core, clock)
       IN  IF user_id \notin UserIds(load_users)
           THEN FinishCreate(user_id)
           ELSE IF attempt > 50 /\ fallback \notin UserIds(load_users)
           THEN FinishCreate(fallback)
           ELSE /\ pending' = [pending EXCEPT !.attempt = attempt]
                /\ UNCHANGED <<users, logs, booted, last>>
    /\ UNCHANGED <<session, clock, ticks, tokens>>
    /\ streak' = NoStreak

\* auth.py:83-88  create_user entered: load the store, call generate_user_id
BeginCreate(req, via) ==
    /\ pending.op = "idle"
    /\ pending' = [op |-> "create_user", req |-> req, attempt |-> 0, via |-> via]
    /\ streak' = NoStreak
    /\ UNCHANGED <<users, logs, session, clock, ticks, booted, last, tokens>>

AdminRequest ==
    [first_name |-> S_System, last_name |-> S_Admin, email |-> S_admin_mail,
     country |-> S_SouthAfrica, org |-> S_MINN, role |-> "Administrator",
     password |-> "Admin@1234"]

\* app.py:23-31  run once when the application module is loaded
create_initial_admin ==
    /\ ~booted
    /\ IF \A i \in 1..Len(load_users) : load_users[i].role # "Administrator"
       THEN BeginCreate(AdminRequest, "create_initial_admin")
       ELSE /\ booted' = TRUE
            /\ UNCHANGED <<users, logs, session, clock, ticks, pending,
                           last, tokens, streak>>

----------------------------------------------------------------------------
(* Authentication and lockout *)

\* a message of its own for the wrong-password branch
GenericMsgWrongPassword == <<"Wrong password.">>
\* auth.py:143,181
GenericMsg == <<"Invalid credentials.">>
LockedMsg(locked_until) == <<"Account locked until ", locked_until, " UTC.">>
TooManyMsg(locked_until) ==
    <<"Too many failed attempts. Account locked until ", locked_until, " UTC.">>

\* auth.py:161,178  save_users(data): user was returned by
\* find_user_by_username from its own load_users() call, so it is a record
\* of another document than data, and data is written back as it was loaded
SaveAuth(data, idx, user) == save_users(data)

\* the lockout test with the comparison turned around
IsLockedFlipped(user, t) ==
    /\ user.locked_until # None
    /\ FromIso(user.locked_until) < t

\* auth.py:146-153  the lockout test
IsLocked(user, t) ==
    /\ user.locked_until # None
    /\ FromIso(user.locked_until) > t

\* auth.py:172-174
LockUntil(t, tz) == IsoZ(UtcFromTimestamp(Timestamp(t, tz) + LOCKOUT_SECONDS))

\* the run of consecutive wrong-password calls, after one more such call
StreakAfterWrong(username, stored) ==
    IF streak.user = username /\ streak.n > 0 /\ streak.n < MAX_FAILED_LOGIN
    THEN [user |-> username, n |-> streak.n + 1, at |-> clock]
    ELSE IF stored.failed_logins = 0
    THEN [user |-> username, n |-> 1, at |-> clock]
    ELSE NoStreak

\* a login that keeps the role the session had
SessionForStaleRole(user) ==
    [username |-> user.username, role |-> session.role,
     user_id |-> user.user_id]

\* auth.py:162-164
SessionFor(user) ==
    [username |-> user.username, role |-> user.role, user_id |-> user.user_id]

\* auth.py:140-181  authenticate once data (auth.py:137) and user
\* (auth.py:139, record idx of the document find_user_by_username loaded,
\* None when idx = 0) are at hand; tzOffset is the local zone's UTC offset
AuthenticateWith(data, idx, user, username, password, tzOffset) ==
       LET now == IsoZ(clock)
       IN  IF idx = 0
           THEN /\ logs' = append_log(logs,
                      [timestamp |-> now, event |-> "login_failed",
                       username |-> username, reason |-> "no_user",
                       ip |-> RemoteIp])
                /\ last' = [op |-> "authenticate", ok |-> FALSE,
                            msg |-> GenericMsg,
                            arg |-> <<username, password>>, ret |-> None]
                /\ streak' = NoStreak
                /\ UNCHANGED <<users, session>>
           ELSE IF IsLocked(user, clock)
                THEN /\ logs' = append_log(logs,
                           [timestamp |-> now, event |-> "login_blocked",
                            user_id |-> user.user_id, reason |-> "locked",
                            ip |-> RemoteIp])
                     /\ last' = [op |-> "authenticate", ok |-> FALSE,
                                 msg |-> LockedMsg(user.locked_until),
                                 arg |-> <<username, password>>, ret |-> None]
                     /\ streak' = NoStreak
                     /\ UNCHANGED <<users, session>>
                ELSE IF check_password(password, user.password_hash)
                THEN LET user1 == [user EXCEPT !.failed_logins = 0,
                                               !.locked_until = None]
                     IN  /\ users' = SaveAuth(data, idx, user1)
                         /\ session' = SessionFor(user1)
                         /\ logs' = append_log(logs,
                               [timestamp |-> now, event |-> "login_success",
                                user_id |-> user1.user_id,
                                username |-> user1.username, ip |-> RemoteIp])
                         /\ last' = [op |-> "authenticate", ok |-> TRUE,
                                     msg |-> <<"Authenticated">>,
                                     arg |-> <<username, password>>,
                                     ret |-> None]
                         /\ streak' = NoStreak
                ELSE LET n == user.failed_logins + 1
                         locking == n >= MAX_FAILED_LOGIN
                         user1 == [user EXCEPT
                                     !.failed_logins = n,
                                     !.locked_until =
                                        IF locking THEN LockUntil(clock, tzOffset)
                                        ELSE user.locked_until]
                     IN  /\ logs' = append_log(logs,
                               IF locking
                               THEN [timestamp |-> now, event |-> "account_locked",
                                     user_id |-> user1.user_id,
                                     username |-> user1.username,
                                     ip |-> RemoteIp]
                               ELSE [timestamp |-> now, event |-> "login_failed",
                                     user_id |-> user1.user_id,
                                     username |-> user1.username,
                                     attempts |-> user1.failed_logins,
                                     ip |-> RemoteIp])
                         /\ users' = SaveAuth(data, idx, user1)
                         /\ last' = [op |-> "authenticate", ok |-> FALSE,
                                     msg |-> IF locking
                                             THEN TooManyMsg(user1.locked_until)
                                             ELSE GenericMsg,
                                     arg |-> <<username, password>>,
                                     ret |-> None]
                         /\ streak' = StreakAfterWrong(username, user)
                         /\ UNCHANGED session

\* auth.py:135-181  a call that runs alone
authenticate(username, password, tzOffset) ==
    /\ booted /\ pending.op = "idle"
    /\ LET data == load_users
           idx == find_user_by_username(load_users, username)
           user == IF idx = 0 THEN None ELSE load_users[idx]
       IN  AuthenticateWith(data, idx, user, username, password, tzOffset)
    /\ UNCHANGED <<clock, ticks, booted, pending, tokens>>

\* two calls of authenticate for one username in two execution contexts;
\* each context is at "start", has "loaded" data (auth.py:137), has "found"
\* user (auth.py:139), or is "done"
NewContext(password) ==
    [pc |-> "start", password |-> password, data |-> <<>>, idx |-> 0,
     user |-> None, wrong |-> FALSE]

AuthBegin(username, password1, password2) ==
    /\ booted /\ pending.op = "idle"
    /\ pending' = [op |-> "authenticate", username |-> username,
                   ctx |-> <<NewContext(password1), NewContext(password2)>>,
                   overlap |-> FALSE,
                   base |-> IF find_user_by_username(load_users, username) = 0
                            THEN 0
                            ELSE load_users[find_user_by_username(
                                     load_users, username)].failed_logins]
    /\ streak' = NoStreak
    /\ UNCHANGED <<users, logs, session, clock, ticks, booted, last, tokens>>

\* the next step of context c: auth.py:137, then auth.py:139, then
\* auth.py:140-181
AuthStep(c, tzOffset) ==
    /\ pending.op = "authenticate"
    /\ LET me == pending.ctx[c]
           other == pending.ctx[3 - c]
           overlap == pending.overlap \/ other.pc \in {"loaded", "found"}
       IN  /\ me.pc # "done"
           /\ IF me.pc = "start"
              THEN /\ pending' = [pending EXCEPT
                                    !.ctx[c].pc = "loaded",
                                    !.ctx[c].data = load_users,
                                    !.overlap = overlap]
                   /\ UNCHANGED <<users, logs, session, last, streak>>
              ELSE IF me.pc = "loaded"
              THEN LET idx == find_user_by_username(load_users,
                                                    pending.username)
                   IN  /\ pending' = [pending EXCEPT
                                        !.ctx[c].pc = "found",
                                        !.ctx[c].idx = idx,
                                        !.ctx[c].user =
                                            IF idx = 0 THEN None
                                            ELSE load_users[idx],
                                        !.overlap = overlap]
                       /\ UNCHANGED <<users, logs, session, last, streak>>
              ELSE /\ AuthenticateWith(me.data, me.idx, me.user,
                                       pending.username, me.password, tzOffset)
                   /\ pending' = [pending EXCEPT
                                    !.ctx[c].pc = "done",
                                    !.ctx[c].wrong =
                                        /\ me.idx # 0
                                        /\ ~IsLocked(me.user, clock)
                                        /\ ~check_password(me.password,
                                                           me.user.password_hash),
                                    !.overlap = overlap]
    /\ UNCHANGED <<clock, ticks, booted, tokens>>

\* both calls have returned
AuthEnd ==
    /\ pending.op = "authenticate"
    /\ \A c \in 1..2 : pending.ctx[c].pc = "done"
    /\ pending' = Idle
    /\ UNCHANGED <<users, logs, session, clock, ticks, booted, last, tokens,
                   streak>>


\* an unlock that resets the counter and leaves the lock timestamp
UnlockedKeepsLock(u) == [u EXCEPT !.failed_logins = 0]

\* an unlock that also blanks the password
UnlockedDropsHash(u) ==
    [u EXCEPT !.failed_logins = 0, !.locked_until = None,
              !.password_hash = hash_password("")]

\* auth.py:242-243
Unlocked(u) == [u EXCEPT !.failed_logins = 0, !.locked_until = None]

\* auth.py:237-247
unlock_account(user_id) ==
    /\ booted /\ pending.op = "idle"
    /\ LET data == load_users
           idx == FirstIdx(data, "user_id", user_id, 1)
       IN  IF idx # 0
           THEN /\ users' = save_users([data EXCEPT ![idx] = Unlocked(data[idx])])
                /\ logs' = append_log(logs,
                      [timestamp |-> IsoZ(clock), event |-> "account_unlocked",
                       user_id |-> user_id, by |-> "admin"])
                /\ last' = [op |-> "unlock_account", ok |-> TRUE,
                            msg |-> <<>>, arg |-> <<user_id>>, ret |-> None]
           ELSE /\ last' = [op |-> "unlock_account", ok |-> FALSE,
                            msg |-> <<>>, arg |-> <<user_id>>, ret |-> None]
                /\ UNCHANGED <<users, logs>>
    /\ streak' = NoStreak
    /\ UNCHANGED <<session, clock, ticks, booted, pending, tokens>>

\* a reset that replaces the hash and leaves the counter
PasswordResetKeepsCount(u, new_password) ==
    [u EXCEPT !.password_hash = hash_password(new_password),
              !.locked_until = None]

\* a reset that replaces the hash and leaves the lock timestamp
PasswordResetKeepsLock(u, new_password) ==
    [u EXCEPT !.password_hash = hash_password(new_password),
              !.failed_logins = 0]

\* auth.py:206-208
PasswordReset(u, new_password) ==
    [u EXCEPT !.password_hash = hash_password(new_password),
              !.failed_logins = 0,
              !.locked_until = None]

\* auth.py:201-212
reset_password(email, new_password) ==
    /\ booted /\ pending.op = "idle"
    /\ LET data == load_users
           idx == FirstIdx(data, "email", email, 1)
       IN  IF idx # 0
           THEN /\ users' = save_users(
                      [data EXCEPT
                         ![idx] = PasswordReset(data[idx], new_password)])
                /\ logs' = append_log(logs,
                      [timestamp |-> IsoZ(clock), event |-> "password_reset",
                       user_id |-> data[idx].user_id,
                       username |-> data[idx].username])
                /\ last' = [op |-> "reset_password", ok |-> TRUE,
                            msg |-> <<>>, arg |-> <<email, new_password>>,
                            ret |-> None]
           ELSE /\ last' = [op |-> "reset_password", ok |-> FALSE,
                            msg |-> <<>>, arg |-> <<email, new_password>>,
                            ret |-> None]
                /\ UNCHANGED <<users, logs>>
    /\ streak' = NoStreak
    /\ UNCHANGED <<session, clock, ticks, booted, pending, tokens>>

----------------------------------------------------------------------------
(* Routes of app.py *)

\* str.strip()
IsSpace(c) == c \in {9, 10, 11, 12, 13, 32}
RECURSIVE LStrip(_)
LStrip(s) == IF s # <<>> /\ IsSpace(s[1]) THEN LStrip(Tail(s)) ELSE s
RECURSIVE RStrip(_)
RStrip(s) == IF s # <<>> /\ IsSpace(s[Len(s)])
             THEN RStrip(SubSeq(s, 1, Len(s) - 1)) ELSE s
Strip(s) == RStrip(LStrip(s))

JaneRequest ==
    [first_name |-> S_Jane, last_name |-> S_Doe, email |-> S_jane_mail,
     country |-> S_SouthAfrica, org |-> S_MINN, role |-> "Researcher",
     password |-> "Secret1!"]
Jane2Request ==
    [first_name |-> S_JA_NE, last_name |-> S_Doe, email |-> S_JANE_MAIL,
     country |-> S_SouthAfrica, org |-> S_MINN, role |-> "Investor",
     password |-> "Secret1!"]

\* inputs of the calls
CreateRequests == {JaneRequest, Jane2Request, AdminRequest}
SignupForms ==
    {[r EXCEPT !.first_name = <<32>> \o r.first_name] @@ [confirm |-> r.password]
        : r \in CreateRequests}
    \cup {JaneRequest @@ [confirm |-> "Admin@1234"],
          [JaneRequest EXCEPT !.first_name = <<32, 32>>]
              @@ [confirm |-> "Secret1!"],
          [JaneRequest EXCEPT !.role = "Guest"] @@ [confirm |-> "Secret1!"]}
\* the forms sent to /signup when only signups are followed: the above, one
\* that asks for the Administrator role under a new e-mail, one without a
\* password
AllSignupForms ==
    SignupForms
    \cup {[JaneRequest EXCEPT !.role = "Administrator"]
              @@ [confirm |-> "Secret1!"],
          [JaneRequest EXCEPT !.password = ""] @@ [confirm |-> ""]}
Passwords == {"Admin@1234", "Secret1!"}
EmailInputs == {S_admin_mail, S_jane_mail, S_JANE_MAIL}
LoginNames == Usernames(users) \cup {S_nobody}
UnlockIds == UserIds(users) \cup {S_nobody}
MaxAges == {0, PASSWORD_RESET_EXP_SECONDS}
\* e-mails given to reset_password: those of accounts, and one of nobody
ResetEmails == EmailInputs \cup {S_nobody}

\* a direct call of create_user (auth.py:83)
CreateUser(req) ==
    /\ booted
    /\ BeginCreate(req, "create_user")

\* app.py:65-93  POST /signup
signup(form) ==
    /\ booted /\ pending.op = "idle"
    /\ LET first_name == Strip(form.first_name)
           last_name == Strip(form.last_name)
           email == Strip(form.email)
           country == Strip(form.country)
           org == Strip(form.org)
           reject(m) ==
               /\ last' = [op |-> "signup", arg |-> form, ok |-> FALSE,
                           msg |-> <<m>>, ret |-> None]
               /\ streak' = NoStreak
               /\ UNCHANGED <<users, logs, session, clock, ticks,
                              booted, pending, tokens>>
       IN  IF first_name = <<>> \/ last_name = <<>> \/ email = <<>>
              \/ country = <<>> \/ form.password = ""
           THEN reject("Please fill in all required fields.")
           ELSE IF form.password # form.confirm
           THEN reject("Passwords do not match.")
           ELSE IF find_user_by_email(load_users, email) # 0
           THEN reject("An account with that email already exists.")
           ELSE IF form.role = "Administrator"
           THEN reject("Administrator accounts must be created by an admin.")
           ELSE BeginCreate([first_name |-> first_name, last_name |-> last_name,
                             email |-> email, country |-> country, org |-> org,
                             role |-> form.role, password |-> form.password],
                            "signup")

\* app.py:59-63
logout ==
    /\ booted /\ pending.op = "idle"
    /\ session' = NoSession
    /\ last' = [op |-> "logout", arg |-> <<>>, ok |-> TRUE, msg |-> <<>>,
                ret |-> None]
    /\ streak' = NoStreak
    /\ UNCHANGED <<users, logs, clock, ticks, booted, pending, tokens>>

\* a guard that only asks for a logged-in session
requires_role_AnySession(allowed) ==
    IF session.username = None THEN "login" ELSE "call"

\* auth.py:217-232  what the wrapper does for the current session: redirect
\* to login, flash the permission message and redirect to login, or call the
\* handler
requires_role(allowed) ==
    IF session.username = None THEN "login"
    ELSE IF session.role \notin allowed THEN "denied"
    ELSE "call"

\* the wrapper returned redirect(url_for("login")) without calling the handler
Redirected(op, guard, arg) ==
    /\ booted /\ pending.op = "idle"
    /\ last' = [op |-> op, ok |-> FALSE, msg |-> <<guard>>, arg |-> arg,
                ret |-> "login"]
    /\ streak' = NoStreak
    /\ UNCHANGED <<users, logs, session, clock, ticks, booted, pending, tokens>>

\* a dashboard handler rendered its template
Rendered(op, template) ==
    /\ booted /\ pending.op = "idle"
    /\ last' = [op |-> op, ok |-> TRUE, msg |-> <<>>, arg |-> <<>>,
                ret |-> template]
    /\ streak' = NoStreak
    /\ UNCHANGED <<users, logs, session, clock, ticks, booted, pending, tokens>>

\* app.py:96-105  GET /dashboard/admin
dashboard_admin ==
    LET guard == requires_role({"Administrator"})
    IN  IF guard = "call"
        THEN Rendered("dashboard_admin", "dashboard_admin.html")
        ELSE Redirected("dashboard_admin", guard, <<>>)

\* app.py:107-110  GET /dashboard/investor
dashboard_investor ==
    LET guard == requires_role({"Investor"})
    IN  IF guard = "call"
        THEN Rendered("dashboard_investor", "dashboard_investor.html")
        ELSE Redirected("dashboard_investor", guard, <<>>)

\* app.py:112-116  GET /dashboard/researcher
dashboard_researcher ==
    LET guard == requires_role({"Researcher"})
    IN  IF guard = "call"
        THEN Rendered("dashboard_researcher", "dashboard_researcher.html")
        ELSE Redirected("dashboard_researcher", guard, <<>>)

\* app.py:151-156  POST /admin/unlock/<user_id>
admin_unlock(user_id) ==
    LET guard == requires_role({"Administrator"})
    IN  IF guard = "call"
        THEN unlock_account(user_id)
        ELSE Redirected("admin_unlock", guard, <<user_id>>)

\* requests whose names are given to generate_username
UsernameRequests ==
    {AdminRequest, Jane2Request,
     [JaneRequest EXCEPT !.org = S_MI],
     [JaneRequest EXCEPT !.org = S_MI \o <<49>>],
     [JaneRequest EXCEPT !.org = <<>>],
     [JaneRequest EXCEPT !.org = S_MI, !.country = S_ZA]}

\* a call of generate_username (auth.py:49) on the store as it is
GenerateUsername(req) ==
    /\ booted /\ pending.op = "idle"
    /\ last' = [op |-> "generate_username", arg |-> req, ok |-> TRUE,
                msg |-> <<>>,
                ret |-> generate_username(load_users, req.first_name,
                                          req.last_name, req.country, req.org)]
    /\ streak' = NoStreak
    /\ UNCHANGED <<users, logs, session, clock, ticks, booted, pending, tokens>>

\* app.py:119-131  POST /reset-request
reset_request(raw) ==
    /\ booted /\ pending.op = "idle"
    /\ LET email == Strip(raw)
       IN  IF find_user_by_email(load_users, email) = 0
           THEN /\ last' = [op |-> "reset_request", arg |-> <<raw>>,
                            ok |-> FALSE, msg |-> <<>>, ret |-> None]
                /\ UNCHANGED tokens
           ELSE /\ tokens' = tokens \cup {generate_reset_token(email, clock)}
                /\ last' = [op |-> "reset_request", arg |-> <<raw>>,
                            ok |-> TRUE, msg |-> <<>>,
                            ret |-> generate_reset_token(email, clock)]
    /\ streak' = NoStreak
    /\ UNCHANGED <<users, logs, session, clock, ticks, booted, pending>>

\* token strings a caller can present: the issued ones and their mutations
\* (another payload, another issue time, a signature made without the key)
Mutations(t) ==
    {[t EXCEPT !.payload = e] : e \in EmailInputs \ {t.payload}}
    \cup {[t EXCEPT !.ts = t.ts + 1]}
    \cup {[t EXCEPT !.sig = Sign("guess", t.payload, t.ts)]}
Presentable == tokens \cup UNION {Mutations(t) : t \in tokens}

\* a call of verify_reset_token (auth.py:190); max_age = None is the default
VerifyResetToken(token, max_age) ==
    /\ booted /\ pending.op = "idle"
    /\ LET email == verify_reset_token(token, max_age, clock)
       IN  last' = [op |-> "verify_reset_token",
                    arg |-> [token |-> token, max_age |-> max_age, at |-> clock],
                    ok |-> email # None, msg |-> <<>>, ret |-> email]
    /\ streak' = NoStreak
    /\ UNCHANGED <<users, logs, session, clock, ticks, booted, pending,
                   tokens>>

\* the passing of time
Tick(d) ==
    /\ booted /\ pending.op = "idle"
    /\ clock' = clock + d
    /\ ticks' = ticks + 1
    /\ UNCHANGED <<users, logs, session, booted, pending, last,
                   tokens, streak>>

----------------------------------------------------------------------------
(* Specifications *)

NoCall == [op |-> "none", arg |-> <<>>, ok |-> FALSE, msg |-> <<>>, ret |-> None]

\* data_loader.py:7-15  a new installation: both files hold empty collections
Init ==
    /\ users = <<>>
    /\ logs = <<>>
    /\ session = NoSession
    /\ clock = StartUnix
    /\ ticks = 0
    /\ booted = FALSE
    /\ pending = Idle
    /\ last = NoCall
    /\ tokens = {}
    /\ streak = NoStreak

\* room left in the two files, in the clock and in the id loop
Room(maxLogs) == Len(logs) < maxLogs
UserRoom == Len(users) < MaxUsers
Boot == Room(MaxLoginLogs) /\ create_initial_admin
GenStep ==
    /\ pending.op = "create_user"
    /\ pending.attempt < MaxAttempt
    /\ \E r \in 0..(RandN - 1) : GenUserIdStep(r)

\* all account operations
Next ==
    \/ Boot
    \/ GenStep
    \/ Room(MaxLogs) /\ UserRoom /\ \E req \in CreateRequests : CreateUser(req)
    \/ Room(MaxLogs) /\ UserRoom /\ \E form \in SignupForms : signup(form)
    \/ Room(MaxLogs) /\ \E u \in LoginNames, p \in Passwords, tz \in TZOffsets :
          authenticate(u, p, tz)
    \/ Room(MaxLogs) /\ \E id \in UnlockIds : unlock_account(id)
    \/ Room(MaxLogs) /\ \E e \in EmailInputs, p \in Passwords : reset_password(e, p)
    \/ logout
    \/ ticks < MaxTicks /\ \E d \in TickSteps : Tick(d)

Spec == Init /\ [][Next]_vars

\* account creation only
NextCreate ==
    \/ Boot
    \/ GenStep
    \/ UserRoom /\ \E req \in CreateRequests : CreateUser(req)
    \/ UserRoom /\ \E form \in SignupForms : signup(form)
    \/ ticks < MaxTicks /\ \E d \in TickSteps : Tick(d)

SpecCreate == Init /\ [][NextCreate]_vars

\* logins only, followed for a longer log
NextLogin ==
    \/ Boot
    \/ GenStep
    \/ Room(MaxLoginLogs) /\ \E u \in LoginNames, p \in Passwords, tz \in TZOffsets :
          authenticate(u, p, tz)
    \/ ticks < MaxTicks /\ \E d \in TickSteps : Tick(d)

SpecLogin == Init /\ [][NextLogin]_vars

\* reset tokens, on an installation that has two accounts
NextToken ==
    \/ Boot
    \/ Cardinality(tokens) < MaxTokens /\ \E e \in EmailInputs : reset_request(e)
    \/ \E x \in Presentable, m \in MaxAges : VerifyResetToken(x, m)
    \/ ticks < MaxTicks /\ \E d \in TokenTickSteps : Tick(d)

\* an installation whose users.json already exists (data_loader.py:10 keeps
\* it): the administrator and one researcher, whose counter and lock are as
\* the lockout state machine leaves them
SeedAdmin ==
    NewUser(AdminRequest, Candidate(Core(S_System, S_Admin, StartMidnight, 7)),
            BaseUsername(S_System, S_Admin, S_SouthAfrica, S_MINN),
            StartMidnight)
SeedJane ==
    NewUser(JaneRequest, Candidate(Core(S_Jane, S_Doe, StartMidnight, 42)),
            BaseUsername(S_Jane, S_Doe, S_SouthAfrica, S_MINN),
            StartMidnight)
SeedLocks ==
    {<<MAX_FAILED_LOGIN - 1, None>>,
     <<MAX_FAILED_LOGIN, IsoZ(StartUnix + LOCKOUT_SECONDS)>>,
     <<MAX_FAILED_LOGIN + 1, IsoZ(StartUnix)>>}

InitSeeded ==
    /\ \E x \in SeedLocks :
          users = <<SeedAdmin, [SeedJane EXCEPT !.failed_logins = x[1],
                                                !.locked_until = x[2]]>>
    /\ logs = <<>>
    /\ session = NoSession
    /\ clock = StartUnix
    /\ ticks = 0
    /\ booted = FALSE
    /\ pending = Idle
    /\ last = NoCall
    /\ tokens = {}
    /\ streak = NoStreak

\* logins and unlocks
NextSeeded ==
    \/ Boot
    \/ Room(MaxLogs) /\ \E u \in LoginNames, p \in Passwords, tz \in TZOffsets :
          authenticate(u, p, tz)
    \/ Room(MaxLogs) /\ \E id \in UnlockIds : unlock_account(id)
    \/ ticks < MaxTicks /\ Tick(LOCKOUT_SECONDS)

SpecSeeded == InitSeeded /\ [][NextSeeded]_vars

\* logins and password resets
NextReset ==
    \/ Boot
    \/ Room(MaxLogs) /\ \E u \in LoginNames, p \in Passwords, tz \in TZOffsets :
          authenticate(u, p, tz)
    \/ Room(MaxLogs) /\ \E e \in ResetEmails, p \in Passwords : reset_password(e, p)

SpecReset == InitSeeded /\ [][NextReset]_vars

\* signup requests only; the forms carry two addresses, the administrator's
\* and one other, so the store stops at two records
NextSignup ==
    \/ Boot
    \/ GenStep
    \/ \E form \in AllSignupForms : signup(form)
    \/ ticks < MaxTicks /\ \E d \in TickSteps : Tick(d)

SpecSignup == Init /\ [][NextSignup]_vars

\* the three operations that write existing records
NextFrame ==
    \/ Boot
    \/ Room(MaxAuditLogs)
          /\ \E u \in LoginNames, p \in Passwords, tz \in TZOffsets :
                authenticate(u, p, tz)
    \/ Room(MaxAuditLogs) /\ \E id \in UnlockIds : unlock_account(id)
    \/ Room(MaxAuditLogs)
          /\ \E e \in ResetEmails, p \in Passwords : reset_password(e, p)

SpecFrame == InitSeeded /\ [][NextFrame]_vars

\* an installation with an account of each role; the investor is locked
SeedInvestor ==
    [NewUser(Jane2Request, Candidate(Core(S_JA_NE, S_Doe, StartMidnight, 43)),
             BaseUsername(S_JA_NE, S_Doe, S_SouthAfrica, S_MINN) \o <<49>>,
             StartMidnight)
        EXCEPT !.failed_logins = MAX_FAILED_LOGIN,
               !.locked_until = IsoZ(StartUnix + LOCKOUT_SECONDS)]

InitRoutes ==
    /\ users = <<SeedAdmin, SeedJane, SeedInvestor>>
    /\ logs = <<>>
    /\ session = NoSession
    /\ clock = StartUnix
    /\ ticks = 0
    /\ booted = FALSE
    /\ pending = Idle
    /\ last = NoCall
    /\ tokens = {}
    /\ streak = NoStreak

\* logins, logouts and the role-gated routes
NextRoutes ==
    \/ Boot
    \/ Room(MaxLogs) /\ \E u \in LoginNames, p \in Passwords, tz \in TZOffsets :
          authenticate(u, p, tz)
    \/ logout
    \/ Room(MaxLogs) /\ \E id \in UnlockIds : admin_unlock(id)
    \/ dashboard_admin
    \/ dashboard_investor
    \/ dashboard_researcher

SpecRoutes == InitRoutes /\ [][NextRoutes]_vars

\* every operation, on a new installation or on one whose users.json exists
InitAudit == Init \/ InitSeeded

NextAudit ==
    \/ Boot
    \/ GenStep
    \/ Room(MaxAuditLogs) /\ UserRoom /\ \E req \in CreateRequests : CreateUser(req)
    \/ Room(MaxAuditLogs) /\ UserRoom /\ \E form \in SignupForms : signup(form)
    \/ Room(MaxAuditLogs)
          /\ \E u \in LoginNames, p \in Passwords, tz \in TZOffsets :
                authenticate(u, p, tz)
    \/ Room(MaxAuditLogs) /\ \E id \in UnlockIds : unlock_account(id)
    \/ Room(MaxAuditLogs) /\ \E id \in UnlockIds : admin_unlock(id)
    \/ Room(MaxAuditLogs)
          /\ \E e \in ResetEmails, p \in Passwords : reset_password(e, p)
    \/ logout
    \/ dashboard_admin
    \/ dashboard_investor
    \/ dashboard_researcher

SpecAudit == InitAudit /\ [][NextAudit]_vars

\* pairs of logins of one user, interleaved step by step
NextRace ==
    \/ Boot
    \/ Len(logs) + 2 <= MaxLogs
          /\ \E u \in LoginNames, p1 \in Passwords, p2 \in Passwords :
                AuthBegin(u, p1, p2)
    \/ \E c \in 1..2, tz \in TZOffsets : AuthStep(c, tz)
    \/ AuthEnd

SpecRace == InitSeeded /\ [][NextRace]_vars

\* stores for generate_username: Jane Does of the organisations MI, MI1,
\* MI2, ..., whose usernames are jane.doe.sou.mi, jane.doe.sou.mi1, ...;
\* k = 0 stands for MI
SeedOrg(k) ==
    LET org == IF k = 0 THEN S_MI ELSE S_MI \o Str(k)
        req == [JaneRequest EXCEPT !.org = org, !.email = Str(k) \o S_jane_mail]
    IN  NewUser(req, Candidate(Core(S_Jane, S_Doe, StartMidnight, k)),
                BaseUsername(S_Jane, S_Doe, S_SouthAfrica, org), StartMidnight)

RECURSIVE StoreOf(_, _)
StoreOf(T, k) ==
    IF k > MaxSuffix THEN <<>>
    ELSE (IF k \in T THEN <<SeedOrg(k)>> ELSE <<>>) \o StoreOf(T, k + 1)

InitUsername ==
    /\ \E T \in SUBSET (0..MaxSuffix) : users = StoreOf(T, 0)
    /\ logs = <<>>
    /\ session = NoSession
    /\ clock = StartUnix
    /\ ticks = 0
    /\ booted = FALSE
    /\ pending = Idle
    /\ last = NoCall
    /\ tokens = {}
    /\ streak = NoStreak

\* generate_username as a function of the store and the names
NextUsername ==
    \/ Boot
    \/ GenStep
    \/ \E req \in UsernameRequests : GenerateUsername(req)

SpecUsername == InitUsername /\ [][NextUsername]_vars

InitToken ==
    /\ users = <<SeedAdmin, SeedJane>>
    /\ logs = <<>>
    /\ session = NoSession
    /\ clock = StartUnix
    /\ ticks = 0
    /\ booted = FALSE
    /\ pending = Idle
    /\ last = NoCall
    /\ tokens = {}
    /\ streak = NoStreak

SpecToken == InitToken /\ [][NextToken]_vars

TypeOK == Len(users) <= MaxUsers /\ Len(logs) <= MaxLoginLogs

----------------------------------------------------------------------------
(* Vocabulary of the properties *)

Known(us, username) == \E i \in 1..Len(us) : us[i].username = username
RecOf(us, username) ==
    us[CHOOSE i \in 1..Len(us) : us[i].username = username]
HasId(us, user_id) == \E i \in 1..Len(us) : us[i].user_id = user_id
RecOfId(us, user_id) ==
    us[CHOOSE i \in 1..Len(us) : us[i].user_id = user_id]
\* the record rejects logins at time t: its lock lies in the future
LockedAt(u, t) == u.locked_until # None /\ u.locked_until[2] > t
RightPassword(u, p) == u.password_hash[2] = p
LastLog(lg) == lg[Len(lg)]
\* lg2 is lg with exactly one entry added at the end
OneMore(lg, lg2) == Len(lg2) = Len(lg) + 1 /\ SubSeq(lg2, 1, Len(lg)) = lg
SaysLocked(msg) ==
    msg[1] \in {"Account locked until ",
                "Too many failed attempts. Account locked until "}

----------------------------------------------------------------------------
(* C1 - C5: lockout state machine *)

\* C1: once MAX_FAILED_LOGIN consecutive wrong-password logins of a user that
\* started Active with failed_logins = 0 have been made, the stored record is
\* locked until the time of the last attempt + LOCKOUT_SECONDS, and every
\* login of that user before that time, whatever the password, fails with a
\* message saying the account is locked.
C1_LockoutAfterMaxFailed ==
    [][ /\ streak'.n = MAX_FAILED_LOGIN =>
              RecOf(users', streak'.user).locked_until
                  = IsoZ(streak'.at + LOCKOUT_SECONDS)
        /\ \A p \in Passwords, tz \in TZOffsets :
              ( /\ streak.n = MAX_FAILED_LOGIN
                /\ clock < streak.at + LOCKOUT_SECONDS
                /\ authenticate(streak.user, p, tz) )
              => ~last'.ok /\ SaysLocked(last'.msg)
      ]_vars

\* C2: a wrong-password login of a known, Active user raises the stored
\* failed_logins by exactly one; while the new count is below
\* MAX_FAILED_LOGIN it logs login_failed with the new count, returns the
\* generic message and leaves locked_until unset.
C2_WrongPasswordCounts ==
    [][ \A u \in LoginNames, p \in Passwords, tz \in TZOffsets :
          ( /\ authenticate(u, p, tz)
            /\ Known(users, u)
            /\ ~LockedAt(RecOf(users, u), clock)
            /\ ~RightPassword(RecOf(users, u), p) )
          => LET old == RecOf(users, u)
                 new == RecOf(users', u)
             IN  /\ new.failed_logins = old.failed_logins + 1
                 /\ new.failed_logins < MAX_FAILED_LOGIN
                      => /\ LastLog(logs').event = "login_failed"
                         /\ LastLog(logs').attempts = new.failed_logins
                         /\ last'.msg = GenericMsg
                         /\ new.locked_until = None
      ]_vars

C4_LockedRejectsAll ==
    [][ \A u \in LoginNames, p \in Passwords, tz \in TZOffsets :
          ( /\ authenticate(u, p, tz)
            /\ Known(users, u)
            /\ LockedAt(RecOf(users, u), clock) )
          => /\ ~last'.ok
             /\ last'.msg[2] = RecOf(users, u).locked_until
             /\ OneMore(logs, logs')
             /\ LastLog(logs').event = "login_blocked"
             /\ users' = users
             /\ session' = session
      ]_vars

\* a locked user has presented the right password and was turned away
C4_Witness ==
    /\ last.op = "authenticate" /\ ~last.ok
    /\ last.msg[1] = "Account locked until "
    /\ Known(users, last.arg[1])
    /\ LockedAt(RecOf(users, last.arg[1]), clock)
    /\ RightPassword(RecOf(users, last.arg[1]), last.arg[2])

\* C5: unlock_account of an existing user, locked or not, stores
\* failed_logins = 0 and locked_until = null, logs account_unlocked and
\* returns true, and a correct-password login that follows it at once
\* succeeds; for an unknown user_id it returns false and changes neither the
\* user store nor the log.
C5_UnlockClears ==
    [][ /\ \A id \in UnlockIds :
              unlock_account(id)
              => IF HasId(users, id)
                 THEN /\ last'.ok
                      /\ RecOfId(users', id).failed_logins = 0
                      /\ RecOfId(users', id).locked_until = None
                      /\ OneMore(logs, logs')
                      /\ LastLog(logs').event = "account_unlocked"
                 ELSE ~last'.ok /\ users' = users /\ logs' = logs
        /\ \A u \in LoginNames, p \in Passwords, tz \in TZOffsets :
              ( /\ last.op = "unlock_account" /\ last.ok
                /\ authenticate(u, p, tz)
                /\ Known(users, u)
                /\ RecOf(users, u).user_id = last.arg[1]
                /\ RightPassword(RecOf(users, u), p) )
              => last'.ok
      ]_vars

\* a user was turned away as locked, then unlocked, then logged in, all
\* within the lockout window
C5_Witness ==
    /\ Len(logs) >= 3
    /\ logs[Len(logs) - 2].event = "login_blocked"
    /\ logs[Len(logs) - 1].event = "account_unlocked"
    /\ logs[Len(logs)].event = "login_success"
    /\ logs[Len(logs) - 1].user_id = logs[Len(logs) - 2].user_id
    /\ logs[Len(logs)].user_id = logs[Len(logs) - 1].user_id
    /\ logs[Len(logs)].timestamp = logs[Len(logs) - 2].timestamp

----------------------------------------------------------------------------
(* C6 - C9: identity generation *)

\* C6: no two records of the user store share a user_id, and no two share a
\* username.
C6_UniqueIdAndUsername ==
    \A i, j \in 1..Len(users) :
        i # j => /\ users[i].user_id # users[j].user_id
                 /\ users[i].username # users[j].username

\* two records of people with the same normalised name, created on the same
\* day with the same initials: the later one carries the suffix 1
C6_Witness ==
    \E i, j \in 1..Len(users) :
        /\ i < j
        /\ users[j].username = users[i].username \o <<49>>
        /\ SubSeq(users[j].user_id, 1, 12) = SubSeq(users[i].user_id, 1, 12)

\* C7: no two records of the user store have e-mails that are equal when
\* compared case-insensitively.
C7_UniqueEmail ==
    \A i, j \in 1..Len(users) :
        i # j => Lower(users[i].email) # Lower(users[j].email)

\* C8: every stored user id ends in the two-digit, zero-padded value of
\* (sum of the character codes of the string before it) mod 97.
C8_ChecksumSuffix ==
    \A i \in 1..Len(users) :
        LET id == users[i].user_id
            n == Len(id)
        IN  SubSeq(id, n - 1, n) = Pad(SumOrd(SubSeq(id, 1, n - 2)) % 97, 2)

\* C9: generate_user_id has returned once 50 retries and the fallback
\* re-check are over: no call is still running after its 51st collision has
\* been followed by yet another one.
C9_BoundedRetries ==
    pending.op = "create_user" => pending.attempt <= 51

----------------------------------------------------------------------------
(* C10: reset tokens *)

\* C10: verify_reset_token returns the e-mail of an issued token while the
\* time since its issue is at most max_age, and null once that time is
\* exceeded or when the token presented is not the issued one; expiry and
\* tampering give the same value.
C10_TokenRoundTrip ==
    last.op = "verify_reset_token" =>
        LET x == last.arg.token
            age == last.arg.at - x.ts
        IN  /\ x \in tokens /\ age <= last.arg.max_age => last.ret = x.payload
            /\ x \in tokens /\ age > last.arg.max_age => last.ret = None
            /\ x \notin tokens => last.ret = None

\* an issued token was redeemed exactly max_age seconds after its issue
C10_Witness ==
    /\ last.op = "verify_reset_token"
    /\ last.arg.token \in tokens
    /\ last.arg.max_age = PASSWORD_RESET_EXP_SECONDS
    /\ last.arg.at - last.arg.token.ts = last.arg.max_age
    /\ last.ret = last.arg.token.payload
    /\ last.ret # None

----------------------------------------------------------------------------
(* C11: password reset *)

\* index of the first record whose e-mail equals e without regard to case,
\* 0 if there is none
EmailIdx(us, e) ==
    IF \E i \in 1..Len(us) : Lower(us[i].email) = Lower(e)
    THEN CHOOSE i \in 1..Len(us) :
            /\ Lower(us[i].email) = Lower(e)
            /\ \A j \in 1..(i - 1) : Lower(us[j].email) # Lower(e)
    ELSE 0

\* C11: reset_password(email, new_password), when a record's e-mail matches
\* without regard to case, stores for that record a hash that new_password
\* and no other password verifies against, failed_logins = 0 and
\* locked_until = null, logs password_reset and returns true, and a login of
\* that user with the new password right after it succeeds even if the
\* account was locked; when no record matches it returns false and changes
\* neither the user store nor the log.
C11_ResetPassword ==
    [][ /\ \A e \in ResetEmails, np \in Passwords :
              reset_password(e, np)
              => LET i == EmailIdx(users, e)
                 IN  IF i # 0
                     THEN /\ last'.ok
                          /\ Len(users') = Len(users)
                          /\ \A p \in Passwords :
                                check_password(p, users'[i].password_hash)
                                    <=> p = np
                          /\ users'[i].failed_logins = 0
                          /\ users'[i].locked_until = None
                          /\ OneMore(logs, logs')
                          /\ LastLog(logs').event = "password_reset"
                          /\ LastLog(logs').user_id = users[i].user_id
                     ELSE ~last'.ok /\ users' = users /\ logs' = logs
        /\ \A u \in LoginNames, p \in Passwords, tz \in TZOffsets :
              ( /\ last.op = "reset_password" /\ last.ok
                /\ authenticate(u, p, tz)
                /\ Known(users, u)
                /\ RecOf(users, u) = users[EmailIdx(users, last.arg[1])]
                /\ p = last.arg[2] )
              => last'.ok
      ]_vars

\* a user was turned away as locked, had the password replaced, and logged
\* in with the new password at the same moment
C11_Witness ==
    /\ Len(logs) >= 3
    /\ logs[Len(logs) - 2].event = "login_blocked"
    /\ logs[Len(logs) - 1].event = "password_reset"
    /\ logs[Len(logs)].event = "login_success"
    /\ logs[Len(logs) - 1].user_id = logs[Len(logs) - 2].user_id
    /\ logs[Len(logs)].user_id = logs[Len(logs) - 1].user_id
    /\ logs[Len(logs)].timestamp = logs[Len(logs) - 2].timestamp
    /\ last.op = "authenticate" /\ last.ok
    /\ last.arg[2] = "Admin@1234"
    /\ RecOf(users, last.arg[1]).email = S_jane_mail
    /\ RecOf(users, last.arg[1]).password_hash = hash_password("Admin@1234")

----------------------------------------------------------------------------
(* C12: role gate *)

\* the session holds a username and its role is one of roles
SessionIn(roles) == session.username # None /\ session.role \in roles

\* C12: a handler wrapped by requires_role(roles) runs only when the session
\* holds a username and a role of the allowed set; otherwise its body is not
\* executed (user store and log stay as they are) and the caller is
\* redirected to login. This holds for the admin unlock route and for each
\* of the three dashboards.
C12_RoleGate ==
    [][ /\ \A id \in UnlockIds :
              admin_unlock(id)
              => IF SessionIn({"Administrator"})
                 THEN last'.op = "unlock_account"
                 ELSE /\ last'.op = "admin_unlock" /\ last'.ret = "login"
                      /\ users' = users /\ logs' = logs
        /\ dashboard_admin
              => IF SessionIn({"Administrator"})
                 THEN last'.ret = "dashboard_admin.html"
                 ELSE last'.ret = "login"
        /\ dashboard_investor
              => IF SessionIn({"Investor"})
                 THEN last'.ret = "dashboard_investor.html"
                 ELSE last'.ret = "login"
        /\ dashboard_researcher
              => IF SessionIn({"Researcher"})
                 THEN last'.ret = "dashboard_researcher.html"
                 ELSE last'.ret = "login"
      ]_vars

\* a logged-in researcher asked for the unlock of a locked account and was
\* sent to login; the account is still locked
C12_Witness ==
    /\ last.op = "admin_unlock" /\ last.ret = "login"
    /\ session.username # None /\ session.role = "Researcher"
    /\ HasId(users, last.arg[1])
    /\ LockedAt(RecOfId(users, last.arg[1]), clock)

----------------------------------------------------------------------------
(* C13: session lifecycle *)

\* C13: a successful authenticate sets the session's username, role and
\* user_id to the stored fields of the authenticated user; logout clears the
\* session; a failed authenticate (unknown user, locked, wrong password) and
\* every other operation leave the session as it was.
C13_SessionLifecycle ==
    [][ /\ \A u \in LoginNames, p \in Passwords, tz \in TZOffsets :
              authenticate(u, p, tz)
              => IF /\ Known(users, u)
                    /\ ~LockedAt(RecOf(users, u), clock)
                    /\ RightPassword(RecOf(users, u), p)
                 THEN /\ last'.ok
                      /\ session'.username = u
                      /\ session'.role = RecOf(users, u).role
                      /\ session'.user_id = RecOf(users, u).user_id
                 ELSE ~last'.ok /\ session' = session
        /\ logout => session' = [username |-> None, role |-> "",
                                 user_id |-> None]
        /\ ( \/ last' = last
             \/ last'.op \notin {"authenticate", "logout"} )
              => session' = session
      ]_vars

\* a logged-in user's session has survived a failed login under another
\* user's name
C13_Witness ==
    /\ last.op = "authenticate" /\ ~last.ok
    /\ Known(users, last.arg[1])
    /\ session.username # None
    /\ session.username # last.arg[1]
    /\ Known(users, session.username)
    /\ session.role = RecOf(users, session.username).role
    /\ session.user_id = RecOf(users, session.username).user_id

----------------------------------------------------------------------------
(* C14: unknown user *)

\* C14: authenticate with a username that no stored record has returns
\* failure, adds exactly one log entry, a login_failed with reason no_user,
\* and leaves the user store and the session as they were.
C14_UnknownUser ==
    [][ \A u \in LoginNames, p \in Passwords, tz \in TZOffsets :
          ( authenticate(u, p, tz) /\ ~Known(users, u) )
          => /\ ~last'.ok
             /\ OneMore(logs, logs')
             /\ LastLog(logs').event = "login_failed"
             /\ "reason" \in DOMAIN LastLog(logs')
             /\ LastLog(logs').reason = "no_user"
             /\ LastLog(logs').username = u
             /\ users' = users
             /\ session' = session
      ]_vars

\* while a user is logged in, a login under a name nobody has was refused
C14_Witness ==
    /\ last.op = "authenticate" /\ ~last.ok
    /\ ~Known(users, last.arg[1])
    /\ LastLog(logs).event = "login_failed"
    /\ "reason" \in DOMAIN LastLog(logs)
    /\ session.username # None

----------------------------------------------------------------------------
(* C15: audit log *)

\* C15: under every sequence of operations run one at a time, each step
\* leaves the log unchanged or adds entries at its end: the log before the
\* step is a prefix of the log after it.
C15_AppendOnlyLog ==
    [][ /\ Len(logs') >= Len(logs)
        /\ SubSeq(logs', 1, Len(logs)) = logs
      ]_vars

\* the log holds entries of two different events, and the last operation,
\* a logout, added nothing to it
C15_Witness ==
    /\ Len(logs) >= 2
    /\ logs[1].event # logs[2].event
    /\ last.op = "logout"

----------------------------------------------------------------------------
(* C16 - C17: messages and roles *)

C17_RoleEnumeration ==
    \A i \in 1..Len(users) :
        users[i].role \in {"Administrator", "Investor", "Researcher"}

----------------------------------------------------------------------------
(* C18: two logins of one user *)

\* C18: two wrong-password logins of a known, not locked user that run one
\* after the other, without their steps interleaving, lose nothing: when
\* both have returned the stored failed_logins is two higher than before.
C18_SequentialLosesNothing ==
    ( /\ pending.op = "authenticate"
      /\ \A c \in 1..2 : pending.ctx[c].pc = "done" /\ pending.ctx[c].wrong
      /\ ~pending.overlap )
    => RecOf(users, pending.username).failed_logins = pending.base + 2

----------------------------------------------------------------------------
(* C19: usernames *)

\* C19: generate_username returns the base name
\* firstname.lastname.countrycode[.orgshort] when no stored record has it,
\* and otherwise the base followed by the smallest k >= 1 for which base+k
\* is not a stored username.
C19_SmallestSuffix ==
    last.op = "generate_username" =>
        LET req == last.arg
            base == BaseUsername(req.first_name, req.last_name, req.country,
                                 req.org)
            existing == {users[i].username : i \in 1..Len(users)}
        IN  IF base \notin existing
            THEN last.ret = base
            ELSE \E k \in 1..(Len(users) + 1) :
                    /\ last.ret = base \o Str(k)
                    /\ last.ret \notin existing
                    /\ \A j \in 1..(k - 1) : base \o Str(j) \in existing

\* jane.doe.sou.mi and jane.doe.sou.mi2 are taken, jane.doe.sou.mi1 is not:
\* Jane Doe of MI in South Africa gets jane.doe.sou.mi1
C19_Witness ==
    /\ last.op = "generate_username"
    /\ last.arg.org = S_MI /\ last.arg.country = S_SouthAfrica
    /\ last.ret = <<106, 97, 110, 101, 46, 100, 111, 101, 46, 115, 111, 117,
                    46, 109, 105, 49>>
    /\ \E i \in 1..Len(users) : users[i].username =
          <<106, 97, 110, 101, 46, 100, 111, 101, 46, 115, 111, 117,
            46, 109, 105>>
    /\ \E i \in 1..Len(users) : users[i].username =
          <<106, 97, 110, 101, 46, 100, 111, 101, 46, 115, 111, 117,
            46, 109, 105, 50>>

----------------------------------------------------------------------------
(* C20: counter and lock *)

\* C20: in every state reached through create_user, authenticate,
\* unlock_account and reset_password, a stored record with a lock timestamp
\* has failed_logins >= MAX_FAILED_LOGIN, and a stored record with
\* failed_logins = 0 has no lock timestamp.
C20_LockImpliesThreshold ==
    \A i \in 1..Len(users) :
        /\ users[i].locked_until # None
              => users[i].failed_logins >= MAX_FAILED_LOGIN
        /\ users[i].failed_logins = 0 => users[i].locked_until = None

\* a record that was locked, as the refused login in the log shows, has
\* had its password reset and now has neither count nor lock
C20_Witness ==
    /\ last.op = "reset_password" /\ last.ok
    /\ Len(logs) >= 2
    /\ logs[Len(logs) - 1].event = "login_blocked"
    /\ logs[Len(logs)].event = "password_reset"
    /\ logs[Len(logs)].user_id = logs[Len(logs) - 1].user_id
    /\ RecOfId(users, logs[Len(logs)].user_id).failed_logins = 0
    /\ RecOfId(users, logs[Len(logs)].user_id).locked_until = None

----------------------------------------------------------------------------
(* C21: what the record-writing operations leave alone *)

\* records a and b have the same fields and differ at most in those of fields
SameExcept(a, b, fields) ==
    /\ DOMAIN a = DOMAIN b
    /\ \A f \in DOMAIN a \ fields : a[f] = b[f]

\* the step keeps the number of records, every record other than the one
\* at index target, and of that one every field outside fields
Frame(target, fields) ==
    /\ Len(users') = Len(users)
    /\ \A i \in 1..Len(users) :
          IF i = target THEN SameExcept(users[i], users'[i], fields)
          ELSE users'[i] = users[i]

\* index of the record authenticate / unlock_account is aimed at, 0 if none
UsernameIdx(us, username) ==
    IF Known(us, username)
    THEN CHOOSE i \in 1..Len(us) : us[i].username = username
    ELSE 0
UserIdIdx(us, user_id) ==
    IF HasId(us, user_id)
    THEN CHOOSE i \in 1..Len(us) :
            /\ us[i].user_id = user_id
            /\ \A j \in 1..(i - 1) : us[j].user_id # user_id
    ELSE 0

\* C21: authenticate, unlock_account and reset_password add and remove no
\* record and change no record but the one they are aimed at; of that record
\* authenticate and unlock_account change at most failed_logins and
\* locked_until, reset_password at most password_hash, failed_logins and
\* locked_until.
C21_FrameOfWrites ==
    [][ /\ \A u \in LoginNames, p \in Passwords, tz \in TZOffsets :
              authenticate(u, p, tz)
              => Frame(UsernameIdx(users, u), {"failed_logins", "locked_until"})
        /\ \A id \in UnlockIds :
              unlock_account(id)
              => Frame(UserIdIdx(users, id), {"failed_logins", "locked_until"})
        /\ \A e \in ResetEmails, np \in Passwords :
              reset_password(e, np)
              => Frame(EmailIdx(users, e),
                       {"password_hash", "failed_logins", "locked_until"})
      ]_vars

\* a record has been unlocked and then given a new password: it differs from
\* what the installation started with in those three fields, the other
\* record is as it was
C21_Witness ==
    /\ last.op = "reset_password" /\ last.ok
    /\ Len(logs) >= 2
    /\ logs[Len(logs) - 1].event = "account_unlocked"
    /\ logs[Len(logs)].event = "password_reset"
    /\ logs[Len(logs)].user_id = logs[Len(logs) - 1].user_id
    /\ Len(users) = 2
    /\ users[1] = SeedAdmin
    /\ users[2] # SeedJane
    /\ users[2] = [SeedJane EXCEPT
                      !.password_hash = hash_password("Admin@1234")]

----------------------------------------------------------------------------
(* C22: signup and the Administrator role *)

\* s is empty once the white space around it is removed
Blank(s) == \A i \in 1..Len(s) : s[i] \in {9, 10, 11, 12, 13, 32}

\* the form lacks a required field, its passwords differ, its e-mail is that
\* of a stored record without regard to case, or it asks for Administrator
MustReject(form) ==
    \/ Blank(form.first_name) \/ Blank(form.last_name)
    \/ Blank(form.email) \/ Blank(form.country)
    \/ form.password = ""
    \/ form.password # form.confirm
    \/ EmailIdx(users, Strip(form.email)) # 0
    \/ form.role = "Administrator"

AdminCount(us) ==
    Cardinality({i \in 1..Len(us) : us[i].role = "Administrator"})

\* C22: a signup request with the role Administrator, with a required field
\* missing, with password and confirmation different, or with an e-mail a
\* stored record already has (without regard to case) is rejected and leaves
\* the user store and the log as they were; a request that is let through
\* is not for the Administrator role, so the creation it starts leaves the
\* number of Administrator records as it was.
C22_SignupNeverAdmin ==
    [][ /\ \A form \in AllSignupForms :
              signup(form)
              => /\ users' = users /\ logs' = logs
                 /\ IF MustReject(form)
                    THEN ~last'.ok /\ pending' = pending
                    ELSE /\ pending'.op = "create_user"
                         /\ pending'.req.role # "Administrator"
        /\ ( pending.op = "create_user" /\ pending.via = "signup" )
              => AdminCount(users') = AdminCount(users)
      ]_vars

\* a request for the Administrator role under an e-mail nobody has was
\* turned down
C22_Witness ==
    /\ last.op = "signup" /\ ~last.ok
    /\ last.arg.role = "Administrator"
    /\ last.arg.password = last.arg.confirm
    /\ EmailIdx(users, last.arg.email) = 0
    /\ last.msg = <<"Administrator accounts must be created by an admin.">>
    /\ AdminCount(users) = 1

====
